---------------------------- MODULE Spec2Model ----------------------------
(***************************************************************************)
(* Model of the Market Advisor page (app/page.tsx): the mock quote         *)
(* generator, the detail analyzer, the keyword responder of handleSubmit   *)
(* and the refresh loop of the Home component.                             *)
(*                                                                         *)
(* Representation.                                                         *)
(*  - A JavaScript string that the code searches or lower-cases (the       *)
(*    input field, the display names) is a sequence of one-character       *)
(*    strings.  A string that is only built and stored (message contents)  *)
(*    is a TLA+ string; Join turns the former into the latter.             *)
(*  - A number is a fixed-point integer counting units of 1/RandDenom, in  *)
(*    a record tagged with its JavaScript type, so that NaN and a string   *)
(*    result are values of the model too.  Arithmetic is exact: IEEE       *)
(*    rounding is not modelled.                                            *)
(*  - Math.random() yields r/RandDenom for r in 0..RandDenom-1, that is a  *)
(*    value in [0, 1).  Every operator that calls it takes the draw as an  *)
(*    argument.                                                            *)
(***************************************************************************)
EXTENDS Integers, Sequences, FiniteSets, TLC

VARIABLES
    messages,     \* useState<Message[]>            (page.tsx:73)
    input,        \* useState("")                   (page.tsx:79)
    marketData,   \* useState<MarketData[]>([])     (page.tsx:80)
    loading,      \* useState(false)                (page.tsx:81)
    phase,        \* life cycle of the Home component: created, mounted, unmounted
    interval,     \* TRUE while the timer of setInterval is registered (page.tsx:92)
    clock,        \* milliseconds of timer time elapsed since setInterval
    running,      \* invocations of updateMarketData in flight, per position
    calls,        \* history: invocations of updateMarketData, per caller
    clicks,       \* history: clicks on the refresh Button
    submits,      \* history: submit events of the form
    generated     \* history: quotes returned by direct calls of getMockMarketData

vars == <<messages, input, marketData, loading, phase, interval, clock,
          running, calls, clicks, submits, generated>>

-----------------------------------------------------------------------------
(* Bounds of the model *)

RandDenom == 3
MaxTicks == 2
MaxClicks == 1
MaxSubmits == 2
MaxInFlight == 2
MaxFragments == 2
MaxGenerated == 2

\* The draws of Math.random(): r stands for r / RandDenom.
RandomDraws == 0 .. (RandDenom - 1)

-----------------------------------------------------------------------------
(* Strings *)

RECURSIVE Join(_)
Join(s) == IF s = <<>> THEN "" ELSE Head(s) \o Join(Tail(s))

LOWER_CASE ==
    "A" :> "a" @@ "B" :> "b" @@ "C" :> "c" @@ "D" :> "d" @@ "E" :> "e" @@
    "F" :> "f" @@ "G" :> "g" @@ "H" :> "h" @@ "I" :> "i" @@ "J" :> "j" @@
    "K" :> "k" @@ "L" :> "l" @@ "M" :> "m" @@ "N" :> "n" @@ "O" :> "o" @@
    "P" :> "p" @@ "Q" :> "q" @@ "R" :> "r" @@ "S" :> "s" @@ "T" :> "t" @@
    "U" :> "u" @@ "V" :> "v" @@ "W" :> "w" @@ "X" :> "x" @@ "Y" :> "y" @@
    "Z" :> "z"

\* String.prototype.toLowerCase
toLowerCase(s) ==
    [i \in 1 .. Len(s) |-> IF s[i] \in DOMAIN LOWER_CASE THEN LOWER_CASE[s[i]] ELSE s[i]]

\* String.prototype.includes
includes(s, t) ==
    \E i \in 1 .. (Len(s) - Len(t) + 1) : SubSeq(s, i, i + Len(t) - 1) = t

WhiteSpace == {" ", "\t", "\n"}

\* String.prototype.trim
RECURSIVE trim(_)
trim(s) ==
    IF s = <<>> THEN s
    ELSE IF Head(s) \in WhiteSpace THEN trim(Tail(s))
    ELSE IF s[Len(s)] \in WhiteSpace THEN trim(SubSeq(s, 1, Len(s) - 1))
    ELSE s

-----------------------------------------------------------------------------
(* The tables of the page *)

WATCHED_SYMBOLS == <<"^GSPC", "^DJI", "^IXIC", "GC=F", "BTC-USD">>

\* The entries of SYMBOL_NAMES in the order of Object.entries (insertion order).
SYMBOL_NAMES ==
    << [symbol |-> "^GSPC",   name |-> <<"S", "&", "P", " ", "5", "0", "0">>],
       [symbol |-> "^DJI",    name |-> <<"D", "o", "w", " ", "J", "o", "n", "e", "s">>],
       [symbol |-> "^IXIC",   name |-> <<"N", "A", "S", "D", "A", "Q">>],
       [symbol |-> "GC=F",    name |-> <<"G", "o", "l", "d">>],
       [symbol |-> "BTC-USD", name |-> <<"B", "i", "t", "c", "o", "i", "n">>] >>

\* The object literal inside getMockMarketData.
BASE_PRICES ==
    "^GSPC" :> 4500 @@ "^DJI" :> 35000 @@ "^IXIC" :> 14000 @@ "GC=F" :> 1900 @@
    "BTC-USD" :> 45000

DEFAULT_BASE_PRICE == 100

\* Property names every object literal inherits from Object.prototype: looking
\* one of them up on the literal yields a function or an object, not undefined.
OBJECT_PROTOTYPE_KEYS ==
    {"constructor", "toString", "toLocaleString", "valueOf", "hasOwnProperty",
     "isPrototypeOf", "propertyIsEnumerable", "__proto__"}

-----------------------------------------------------------------------------
(* JavaScript values *)

Num(v) == [type |-> "number", val |-> v]
NaN == [type |-> "NaN", val |-> 0]
StringValue == [type |-> "string", val |-> 0]
ObjectValue == [type |-> "object", val |-> 0]

-----------------------------------------------------------------------------
(* Data Generator *)

\* { ... }[symbol] || 100
basePriceOf(symbol) ==
    IF symbol \in DOMAIN BASE_PRICES THEN Num(BASE_PRICES[symbol] * RandDenom)
    ELSE IF symbol \in OBJECT_PROTOTYPE_KEYS THEN ObjectValue
    ELSE Num(DEFAULT_BASE_PRICE * RandDenom)

\* The percentage is taken of the price instead of the base price.
getMockMarketDataPercentOfPrice(symbol, r) ==
    LET basePrice == basePriceOf(symbol)
        change == Num(((2 * r - RandDenom) * ((basePrice.val * 2) \div 100)) \div RandDenom)
        price == Num(basePrice.val + change.val)
    IN  [symbol |-> symbol, price |-> price, change |-> change,
         changePercent |-> Num((change.val * 100 * RandDenom) \div price.val)]

getMockMarketData(symbol, r) ==
    LET basePrice == basePriceOf(symbol)
        \* (Math.random() * 2 - 1) * (basePrice * 0.02); a non-number operand gives NaN
        change ==
            IF basePrice.type = "number"
            THEN Num(((2 * r - RandDenom) * ((basePrice.val * 2) \div 100)) \div RandDenom)
            ELSE NaN
        \* (change / basePrice) * 100
        changePercent ==
            IF basePrice.type = "number" /\ change.type = "number"
            THEN Num((change.val * 100 * RandDenom) \div basePrice.val)
            ELSE NaN
        \* basePrice + change; + on a function or an object concatenates strings
        price ==
            IF basePrice.type = "number" /\ change.type = "number"
            THEN Num(basePrice.val + change.val)
            ELSE IF basePrice.type = "number" THEN NaN
            ELSE StringValue
    IN  [symbol |-> symbol, price |-> price, change |-> change,
         changePercent |-> changePercent]

-----------------------------------------------------------------------------
(* Detail Analyzer *)

Pad2(n) == IF n < 10 THEN "0" \o ToString(n) ELSE ToString(n)

Pad3(n) == IF n < 100 THEN "0" \o Pad2(n) ELSE ToString(n)

\* Number.prototype.toFixed(2) of the number num / den >= 0: the nearest
\* multiple of 0.01, the larger one on a tie.
toFixed2(num, den) ==
    LET hundredths == (num \div den) * 100 + (200 * (num % den) + den) \div (2 * den)
    IN  ToString(hundredths \div 100) \o "." \o Pad2(hundredths % 100)

\* Number.prototype.toLocaleString of a non-negative integer, in the en-US
\* locale: groups of three digits separated by commas.
RECURSIVE toLocaleString(_)
toLocaleString(n) ==
    IF n < 1000 THEN ToString(n)
    ELSE toLocaleString(n \div 1000) \o "," \o Pad3(n % 1000)

\* SYMBOL_NAMES[symbol] || symbol
displayName(symbol) ==
    IF \E i \in 1 .. Len(SYMBOL_NAMES) : SYMBOL_NAMES[i].symbol = symbol
    THEN Join(SYMBOL_NAMES[CHOOSE i \in 1 .. Len(SYMBOL_NAMES) :
                               SYMBOL_NAMES[i].symbol = symbol].name)
    ELSE symbol

\* r is the draw of the quote, rv the draw of the volume.  Callers pass keys of
\* SYMBOL_NAMES, for which data.price is a number.
getMockDetailedAnalysis(symbol, r, rv) ==
    LET data == getMockMarketData(symbol, r)
        p == data.price.val                          \* units of 1/RandDenom
        \* Math.floor(Math.random() * 1000000) + 500000
        volume == (rv * 1000000) \div RandDenom + 500000
        \* data.price * volume in units of 1000/RandDenom, rounded down; the part
        \* dropped is below one unit and 0.005e9 is a whole number of units, so
        \* toFixed2 of marketCap / 1e9 is not affected
        marketCap == p * (volume \div 1000) + (p * (volume % 1000)) \div 1000
        stats ==
            "Current Price: $" \o toFixed2(p, RandDenom) \o "\n" \o
            "Day Range: $" \o toFixed2(p * 98, RandDenom * 100) \o " - $" \o
                toFixed2(p * 102, RandDenom * 100) \o "\n" \o
            "52 Week Range: $" \o toFixed2(p * 9, RandDenom * 10) \o " - $" \o
                toFixed2(p * 11, RandDenom * 10) \o "\n" \o
            "Volume: " \o toLocaleString(volume) \o "\n" \o
            "Market Cap: $" \o toFixed2(marketCap, RandDenom * 1000000) \o "B"
    IN  "Analysis for " \o displayName(symbol) \o ":\n" \o stats

-----------------------------------------------------------------------------
(* Query Responder: the body of handleSubmit after the two state updates *)

GREETING ==
    "Hello! I'm your market advisor. I can provide market data and analysis for major indices and assets. Try asking about the S&P 500, Dow Jones, NASDAQ, Gold, or Bitcoin!"

FALLBACK ==
    "I can provide detailed analysis for S&P 500, Dow Jones, NASDAQ, Gold, and Bitcoin. Please ask about one of these markets!"

\* A loop that does not stop at the first match: the last matching entry wins.
RECURSIVE matchedEntryNoBreak(_, _)
matchedEntryNoBreak(lowercaseInput, i) ==
    IF i > Len(SYMBOL_NAMES) THEN 0
    ELSE LET later == matchedEntryNoBreak(lowercaseInput, i + 1)
         IN  IF later # 0 THEN later
             ELSE IF includes(lowercaseInput, toLowerCase(SYMBOL_NAMES[i].name)) THEN i
             ELSE 0

\* The for loop over Object.entries(SYMBOL_NAMES), from entry i on: the index
\* of the entry at which the loop breaks, 0 when it runs to the end.
RECURSIVE matchedEntry(_, _)
matchedEntry(lowercaseInput, i) ==
    IF i > Len(SYMBOL_NAMES) THEN 0
    ELSE IF includes(lowercaseInput, toLowerCase(SYMBOL_NAMES[i].name)) THEN i
    ELSE matchedEntry(lowercaseInput, i + 1)

\* The input is searched as typed, without lower-casing it.
responseCaseSensitive(text, r, rv) ==
    LET m == matchedEntry(text, 1)
    IN  IF m # 0 THEN getMockDetailedAnalysis(SYMBOL_NAMES[m].symbol, r, rv)
        ELSE FALLBACK

\* The fallback branch is missing: an unmatched input is answered by "".
responseNoFallback(text, r, rv) ==
    LET m == matchedEntry(toLowerCase(text), 1)
    IN  IF m # 0 THEN getMockDetailedAnalysis(SYMBOL_NAMES[m].symbol, r, rv)
        ELSE ""

\* The value of `response` when botMessage is built.
response(text, r, rv) ==
    LET lowercaseInput == toLowerCase(text)
        m == matchedEntry(lowercaseInput, 1)
        found == IF m # 0 THEN getMockDetailedAnalysis(SYMBOL_NAMES[m].symbol, r, rv)
                 ELSE ""
    IN  IF found = "" THEN FALLBACK ELSE found

-----------------------------------------------------------------------------
(* Refresh Loop *)

REFRESH_INTERVAL_MS == 60000

InFlight == running.map + running.clear

\* A map that stops one element short of the watch list.
refreshAllButLast(rs) ==
    [i \in 1 .. (Len(WATCHED_SYMBOLS) - 1) |-> getMockMarketData(WATCHED_SYMBOLS[i], rs[i])]

\* WATCHED_SYMBOLS.map((symbol) => getMockMarketData(symbol)); rs[i] is the
\* draw of the i-th call.
refreshAll(rs) ==
    [i \in 1 .. Len(WATCHED_SYMBOLS) |-> getMockMarketData(WATCHED_SYMBOLS[i], rs[i])]

\* updateMarketData is entered by `caller` and runs setLoading(true).  The two
\* state updates that follow are the steps UpdateSetMarketData and
\* UpdateSetLoadingFalse.  In the browser the three run in one task; the model
\* lets other events be delivered between them, which covers every scheduling
\* of the handler.
updateMarketData(caller) ==
    /\ InFlight < MaxInFlight
    /\ loading' = TRUE
    /\ running' = [running EXCEPT !.map = @ + 1]
    /\ calls' = [calls EXCEPT ![caller] = @ + 1]

\* const data = WATCHED_SYMBOLS.map(...); setMarketData(data);
UpdateSetMarketData(draws) ==
    /\ running.map > 0
    /\ \E rs \in [1 .. Len(WATCHED_SYMBOLS) -> draws] : marketData' = refreshAll(rs)
    /\ running' = [running EXCEPT !.map = @ - 1, !.clear = @ + 1]
    /\ UNCHANGED <<messages, input, loading, phase, interval, clock, calls, clicks,
                   submits, generated>>

\* setLoading(false);
UpdateSetLoadingFalse ==
    /\ running.clear > 0
    /\ loading' = FALSE
    /\ running' = [running EXCEPT !.clear = @ - 1]
    /\ UNCHANGED <<messages, input, marketData, phase, interval, clock, calls, clicks,
                   submits, generated>>

\* An effect that registers the timer without refreshing first.
MountNoRefresh ==
    /\ phase = "created"
    /\ phase' = "mounted"
    /\ interval' = TRUE
    /\ clock' = 0
    /\ UNCHANGED <<messages, input, marketData, loading, running, calls, clicks,
                   submits, generated>>

\* The effect of useEffect(..., []), run once after the first render:
\* updateMarketData(); setInterval(updateMarketData, 60000)
Mount ==
    /\ phase = "created"
    /\ phase' = "mounted"
    /\ updateMarketData("mount")
    /\ interval' = TRUE
    /\ clock' = 0
    /\ UNCHANGED <<messages, input, marketData, clicks, submits, generated>>

\* The timer fires: the callback registered by setInterval runs.
TimerTick ==
    /\ interval
    /\ clock < MaxTicks * REFRESH_INTERVAL_MS
    /\ clock' = clock + REFRESH_INTERVAL_MS
    /\ updateMarketData("timer")
    /\ UNCHANGED <<messages, input, marketData, phase, interval, clicks, submits,
                   generated>>

\* A cleanup that leaves the timer registered.
UnmountKeepTimer ==
    /\ phase = "mounted"
    /\ phase' = "unmounted"
    /\ UNCHANGED <<messages, input, marketData, loading, interval, clock, running,
                   calls, clicks, submits, generated>>

\* The cleanup of the effect, run when the component unmounts:
\* clearInterval(interval)
Unmount ==
    /\ phase = "mounted"
    /\ phase' = "unmounted"
    /\ interval' = FALSE
    /\ UNCHANGED <<messages, input, marketData, loading, clock, running, calls,
                   clicks, submits, generated>>

\* A Button without the disabled attribute.
RefreshClickAlwaysEnabled ==
    /\ phase = "mounted"
    /\ clicks < MaxClicks
    /\ clicks' = clicks + 1
    /\ updateMarketData("click")
    /\ UNCHANGED <<messages, input, marketData, phase, interval, clock, submits,
                   generated>>

\* A click on <Button onClick={updateMarketData} disabled={loading}>: a disabled
\* button dispatches no click event.
RefreshClick ==
    /\ phase = "mounted"
    /\ clicks < MaxClicks
    /\ clicks' = clicks + 1
    /\ IF loading
       THEN UNCHANGED <<loading, running, calls>>
       ELSE updateMarketData("click")
    /\ UNCHANGED <<messages, input, marketData, phase, interval, clock, submits,
                   generated>>

-----------------------------------------------------------------------------
(* Chat *)

\* <Input value={input} onChange={(e) => setInput(e.target.value)} />
OnChange(texts) ==
    /\ phase = "mounted"
    /\ \E text \in texts : input' = text
    /\ input' # input
    /\ UNCHANGED <<messages, marketData, loading, phase, interval, clock, running,
                   calls, clicks, submits, generated>>

\* The history is replaced by the new exchange.
handleSubmitReplacing(draws) ==
    /\ phase = "mounted"
    /\ submits < MaxSubmits
    /\ submits' = submits + 1
    /\ IF trim(input) = <<>>
       THEN UNCHANGED <<messages, input>>
       ELSE /\ \E r \in draws, rv \in draws :
                 messages' = << [role |-> "user", content |-> Join(input)],
                                [role |-> "assistant", content |-> response(input, r, rv)] >>
            /\ input' = <<>>
    /\ UNCHANGED <<marketData, loading, phase, interval, clock, running, calls,
                   clicks, generated>>

\* Both updates spread the `messages` of the render instead of `prev`: the
\* second overwrites the first and the user message is lost.
handleSubmitStale(draws) ==
    /\ phase = "mounted"
    /\ submits < MaxSubmits
    /\ submits' = submits + 1
    /\ IF trim(input) = <<>>
       THEN UNCHANGED <<messages, input>>
       ELSE /\ \E r \in draws, rv \in draws :
                 messages' = Append(messages,
                                [role |-> "assistant", content |-> response(input, r, rv)])
            /\ input' = <<>>
    /\ UNCHANGED <<marketData, loading, phase, interval, clock, running, calls,
                   clicks, generated>>

\* <form onSubmit={handleSubmit}>
handleSubmit(draws) ==
    /\ phase = "mounted"
    /\ submits < MaxSubmits
    /\ submits' = submits + 1
    /\ IF trim(input) = <<>>
       THEN \* if (!input.trim()) return;
            UNCHANGED <<messages, input>>
       ELSE /\ \E r \in draws, rv \in draws :
                 LET userMessage == [role |-> "user", content |-> Join(input)]
                     botMessage == [role |-> "assistant",
                                    content |-> response(input, r, rv)]
                 IN  messages' = Append(Append(messages, userMessage), botMessage)
            /\ input' = <<>>
    /\ UNCHANGED <<marketData, loading, phase, interval, clock, running, calls,
                   clicks, generated>>

-----------------------------------------------------------------------------
(* Inputs *)

\* Pieces of typed text: the display names as written and in other cases,
\* pieces of names, and text that names nothing.
FRAGMENTS ==
    { <<"S", "&", "P", " ", "5", "0", "0">>,
      <<"D", "o", "w", " ", "J", "o", "n", "e", "s">>,
      <<"N", "A", "S", "D", "A", "Q">>,
      <<"G", "o", "l", "d">>,
      <<"B", "i", "t", "c", "o", "i", "n">>,
      <<"n", "a", "s", "d", "a", "q">>,
      <<"g", "o", "l", "d">>,
      <<"G", "O", "L", "D">>,
      <<"b", "a", "n", "a", "n", "a">>,
      <<"g", "o", "l">>,
      <<"D">>,
      <<" ">> }

\* The texts made of at most n fragments.
RECURSIVE Phrases(_)
Phrases(n) ==
    IF n = 0 THEN {<<>>}
    ELSE Phrases(n - 1) \cup {p \o f : p \in Phrases(n - 1), f \in FRAGMENTS}

QueryTexts == Phrases(MaxFragments)

\* The texts typed in the specification of the whole session.
SessionTexts ==
    { <<>>,
      <<" ", "\t">>,
      <<" ", "g", "o", "l", "d", "?">>,
      <<"B", "I", "T", "C", "O", "I", "N", " ", "v", "s", " ", "G", "o", "l", "d">>,
      <<"b", "a", "n", "a", "n", "a">> }

\* The draws of the specification of the whole session, whose claims are about
\* the message list: the least one.
SessionDraws == {0}

\* The draws of the specification of the refresh loop: the least one and the
\* greatest one, so that two snapshots can differ in every quote.
SnapshotDraws == {0, RandDenom - 1}

\* The arguments of direct calls of the generator: the watch list, strings
\* that are no key of the price table, and the inherited property names.
AnySymbols ==
    {WATCHED_SYMBOLS[i] : i \in 1 .. Len(WATCHED_SYMBOLS)}
        \cup {"", "AAPL", "Gold", "gold", "^gspc", "BTC"}
        \cup OBJECT_PROTOTYPE_KEYS

\* A direct call getMockMarketData(symbol), its result kept in `generated`.
Generate(symbols, draws) ==
    /\ Len(generated) < MaxGenerated
    /\ \E symbol \in symbols, r \in draws :
           generated' = Append(generated, getMockMarketData(symbol, r))
    /\ UNCHANGED <<messages, input, marketData, loading, phase, interval, clock,
                   running, calls, clicks, submits>>

-----------------------------------------------------------------------------
(* Specifications *)

\* The state of Home after its first render.
Init ==
    /\ messages = << [role |-> "assistant", content |-> GREETING] >>
    /\ input = <<>>
    /\ marketData = <<>>
    /\ loading = FALSE
    /\ phase = "created"
    /\ interval = FALSE
    /\ clock = 0
    /\ running = [map |-> 0, clear |-> 0]
    /\ calls = [mount |-> 0, timer |-> 0, click |-> 0]
    /\ clicks = 0
    /\ submits = 0
    /\ generated = <<>>

\* The whole session.
Next ==
    \/ Mount
    \/ TimerTick
    \/ RefreshClick
    \/ UpdateSetMarketData(SessionDraws)
    \/ UpdateSetLoadingFalse
    \/ Unmount
    \/ OnChange(SessionTexts)
    \/ handleSubmit(SessionDraws)

Spec == Init /\ [][Next]_vars

\* The refresh loop alone.
NextRefresh ==
    \/ Mount
    \/ TimerTick
    \/ RefreshClick
    \/ UpdateSetMarketData(SnapshotDraws)
    \/ UpdateSetLoadingFalse
    \/ Unmount

SpecRefresh == Init /\ [][NextRefresh]_vars

\* The responder applied to every query text: the page is mounted, its first
\* refresh is over, and the text is in the input field.
InitRespond ==
    /\ messages = << [role |-> "assistant", content |-> GREETING] >>
    /\ input \in QueryTexts
    /\ marketData = refreshAll([i \in 1 .. Len(WATCHED_SYMBOLS) |-> 0])
    /\ loading = FALSE
    /\ phase = "mounted"
    /\ interval = TRUE
    /\ clock = 0
    /\ running = [map |-> 0, clear |-> 0]
    /\ calls = [mount |-> 1, timer |-> 0, click |-> 0]
    /\ clicks = 0
    /\ submits = 0
    /\ generated = <<>>

NextRespond == handleSubmit(RandomDraws)

SpecRespond == InitRespond /\ [][NextRespond]_vars

\* The generator applied to every symbol and every draw.
NextQuote == Generate(AnySymbols, RandomDraws)

SpecQuote == Init /\ [][NextQuote]_vars

-----------------------------------------------------------------------------
(* Properties of the refresh loop, checked under SpecRefresh *)

SnapshotWholeOrEmpty ==
    /\ [](\/ marketData = <<>>
          \/ /\ Len(marketData) = 5
             /\ [i \in 1 .. 5 |-> marketData[i].symbol] =
                    <<"^GSPC", "^DJI", "^IXIC", "GC=F", "BTC-USD">>)
    /\ [][marketData' # marketData =>
             /\ Len(marketData') = 5
             /\ running'.map = running.map - 1
             /\ running'.clear = running.clear + 1]_vars

\* A snapshot has been replaced by another one: two refreshes have run to the
\* end and the quotes on display are not those of the least draw.
SnapshotReplacedWitness ==
    /\ Len(marketData) = 5
    /\ InFlight = 0
    /\ calls.mount + calls.timer + calls.click >= 2
    /\ \A i \in 1 .. 5 : marketData[i].change.val > 0

\* C7: every quote of the snapshot carries the symbol of its place in the
\* watch list, its price is the base price of the symbol plus its change, and
\* its changePercent is change / basePrice * 100 (numbers in units of
\* 1/RandDenom; the division is stated as a product).
QuoteFieldsConsistent ==
    \A i \in 1 .. Len(marketData) :
        LET q == marketData[i]
        IN  /\ q.symbol = WATCHED_SYMBOLS[i]
            /\ q.price.type = "number"
            /\ q.change.type = "number"
            /\ q.changePercent.type = "number"
            /\ q.price.val = BASE_PRICES[q.symbol] * RandDenom + q.change.val
            /\ q.changePercent.val * BASE_PRICES[q.symbol] = q.change.val * 100

\* A snapshot with a quote above and a quote below its base price.
QuoteFieldsWitness ==
    /\ Len(marketData) = 5
    /\ marketData[1].change.val > 0
    /\ marketData[2].change.val < 0

\* C8: once the component is mounted exactly one refresh has been started by
\* the mount, and none by the timer before it; the timer starts one refresh
\* per tick, the ticks being 60000 ms apart; and once the component is
\* unmounted the timer starts no refresh.
RefreshSchedule ==
    /\ [](/\ phase = "created" => calls = [mount |-> 0, timer |-> 0, click |-> 0]
          /\ phase # "created" => calls.mount = 1
          /\ clock = 60000 * calls.timer)
    /\ [][calls'.timer # calls.timer =>
             /\ calls'.timer = calls.timer + 1
             /\ clock' = clock + 60000
             /\ phase = "mounted"]_vars
    /\ [][phase = "unmounted" => calls'.timer = calls.timer /\ clock' = clock]_vars

\* The component was unmounted after one tick of the timer, the bound on the
\* ticks leaving room for another.
RefreshScheduleWitness ==
    /\ phase = "unmounted"
    /\ ~interval
    /\ calls.mount = 1
    /\ calls.timer = 1
    /\ clock < MaxTicks * REFRESH_INTERVAL_MS

-----------------------------------------------------------------------------
(* Properties of the message list, checked under Spec *)

IsPrefix(s, t) == Len(s) <= Len(t) /\ SubSeq(t, 1, Len(s)) = s

\* Every character of the text is white space.
IsBlank(text) == \A i \in 1 .. Len(text) : text[i] \in {" ", "\t", "\n"}

\* C3: in every step the message list before the step is a prefix of the
\* message list after it.
MessagesAppendOnly == [][IsPrefix(messages, messages')]_vars

\* An exchange was appended to a list that already held one, and a refresh
\* has replaced the snapshot.
MessagesAppendOnlyWitness ==
    /\ Len(messages) = 5
    /\ Len(marketData) = 5
    /\ calls.timer + calls.click >= 1

\* C10: the message list is the greeting followed by (user, assistant) pairs;
\* a submit of a blank input appends nothing; a submit of any other input
\* appends one user message with the input as typed and then one assistant
\* message; every other step, the steps of a refresh among them, leaves the
\* list as it is.
MessagesGreetingThenPairs ==
    /\ [](/\ Len(messages) % 2 = 1
          /\ messages[1] = [role |-> "assistant", content |-> GREETING]
          /\ \A i \in 2 .. Len(messages) :
                 messages[i].role = IF i % 2 = 0 THEN "user" ELSE "assistant")
    /\ [][submits' # submits =>
             IF IsBlank(input)
             THEN messages' = messages
             ELSE /\ Len(messages') = Len(messages) + 2
                  /\ IsPrefix(messages, messages')
                  /\ messages'[Len(messages) + 1] =
                         [role |-> "user", content |-> Join(input)]
                  /\ messages'[Len(messages) + 2].role = "assistant"]_vars
    /\ [][submits' = submits => messages' = messages]_vars

\* A blank submit and a submit of a text were both made, a refresh was started
\* by the timer, and the list holds one exchange whose user message kept the
\* leading blank of the input.
MessagesPairsWitness ==
    /\ submits = 2
    /\ Len(messages) = 3
    /\ messages[2].content = " gold?"
    /\ calls.timer >= 1

-----------------------------------------------------------------------------
(* Properties of the responder, checked under SpecRespond *)

\* The display names in lower case, in the order S&P 500, Dow Jones, NASDAQ,
\* Gold, Bitcoin, each with its symbol.
LowerCaseNames ==
    << [symbol |-> "^GSPC",   name |-> <<"s", "&", "p", " ", "5", "0", "0">>],
       [symbol |-> "^DJI",    name |-> <<"d", "o", "w", " ", "j", "o", "n", "e", "s">>],
       [symbol |-> "^IXIC",   name |-> <<"n", "a", "s", "d", "a", "q">>],
       [symbol |-> "GC=F",    name |-> <<"g", "o", "l", "d">>],
       [symbol |-> "BTC-USD", name |-> <<"b", "i", "t", "c", "o", "i", "n">>] >>

\* The places of the names that occur in the lower-cased text.
NamesIn(text) ==
    {i \in 1 .. Len(LowerCaseNames) : includes(toLowerCase(text), LowerCaseNames[i].name)}

\* The reports the analyzer can give for the symbol.
ReportsFor(symbol) ==
    {getMockDetailedAnalysis(symbol, r, rv) : r \in RandomDraws, rv \in RandomDraws}

\* The reply appended by the step.
Reply == messages'[Len(messages')].content

\* C4: when a non-blank input that contains display names is submitted, the
\* reply is a report for the name that comes first in the table among those
\* the input contains.
FirstMatchWins ==
    [][(submits' # submits /\ ~IsBlank(input) /\ NamesIn(input) # {}) =>
          LET first == CHOOSE i \in NamesIn(input) : \A j \in NamesIn(input) : i <= j
          IN  Reply \in ReportsFor(LowerCaseNames[first].symbol)]_vars

\* "BitcoinGold" was answered by a report on Gold, the earlier of the two in
\* the table though the later in the text.
FirstMatchWitness ==
    /\ Len(messages) = 3
    /\ messages[2].content = "BitcoinGold"
    /\ messages[3].content \in ReportsFor("GC=F")

\* C5: when a non-blank input is submitted, a reply is appended, and it is the
\* fallback message exactly when the input contains no display name.
FallbackIffNoMatch ==
    [][(submits' # submits /\ ~IsBlank(input)) =>
          /\ Len(messages') = Len(messages) + 2
          /\ (NamesIn(input) = {}) <=>
                (Reply = "I can provide detailed analysis for S&P 500, Dow Jones, NASDAQ, Gold, and Bitcoin. Please ask about one of these markets!")]_vars

\* "banana" was answered by the fallback message.
FallbackWitness ==
    /\ Len(messages) = 3
    /\ messages[2].content = "banana"
    /\ messages[3].content = FALLBACK

\* The upper-case letter of a lower-case one, any other character unchanged.
UpperCaseOf(c) ==
    IF \E u \in DOMAIN LOWER_CASE : LOWER_CASE[u] = c
    THEN CHOOSE u \in DOMAIN LOWER_CASE : LOWER_CASE[u] = c
    ELSE c

\* Texts that differ from the text in letter case only: all letters in upper
\* case, all in lower case, and the case of every letter swapped.
CaseVariants(text) ==
    { [i \in 1 .. Len(text) |-> UpperCaseOf(text[i])],
      [i \in 1 .. Len(text) |->
          IF text[i] \in DOMAIN LOWER_CASE THEN LOWER_CASE[text[i]] ELSE text[i]],
      [i \in 1 .. Len(text) |->
          IF text[i] \in DOMAIN LOWER_CASE THEN LOWER_CASE[text[i]]
          ELSE UpperCaseOf(text[i])] }

\* C9: when a non-blank input is submitted, the reply is one the responder
\* can give to every text that differs from the input in letter case only:
\* the fallback message for both, or a report with the same header and the
\* same fields for both.
CaseInsensitive ==
    [][(submits' # submits /\ ~IsBlank(input)) =>
          \A variant \in CaseVariants(input) :
              \E r \in RandomDraws, rv \in RandomDraws :
                  Reply = response(variant, r, rv)]_vars

\* "GOLD" was answered by a report on Gold.
CaseInsensitiveWitness ==
    /\ Len(messages) = 3
    /\ messages[2].content = "GOLD"
    /\ messages[3].content \in ReportsFor("GC=F")

-----------------------------------------------------------------------------
(* Property of the generator, checked under SpecQuote *)

\* C6: the price of every quote the generator returns is a number within
\* [0.98 * base, 1.02 * base], where base is the configured price of a
\* watch-list symbol and 100 for every other symbol (prices in units of
\* 1/RandDenom).
PriceWithinTwoPercent ==
    \A i \in 1 .. Len(generated) :
        LET q == generated[i]
            base == CASE q.symbol = "^GSPC" -> 4500
                      [] q.symbol = "^DJI" -> 35000
                      [] q.symbol = "^IXIC" -> 14000
                      [] q.symbol = "GC=F" -> 1900
                      [] q.symbol = "BTC-USD" -> 45000
                      [] OTHER -> 100
        IN  /\ q.price.type = "number"
            /\ 98 * base * RandDenom <= 100 * q.price.val
            /\ 100 * q.price.val <= 102 * base * RandDenom

=============================================================================
